---- MODULE Spec2Model ----
(***************************************************************************)
(* Model of tools/config_editor.py: the config editor that maintains a     *)
(* CRC32 checksum and an optional HMAC-SHA256 signature over the core of   *)
(* a JSON configuration document.                                          *)
(*                                                                         *)
(* Python values are tagged records.  The tag field t sorts before the     *)
(* payload field v, so two values of different type compare unequal        *)
(* before their payloads are looked at.  Text is a sequence of code        *)
(* points; the canonical JSON string is the sequence of its UTF-8 bytes.   *)
(* A dict is a sequence of <<key, value>> pairs in insertion order, as a   *)
(* Python dict keeps it; keys are strings.                                 *)
(***************************************************************************)
EXTENDS Integers, Sequences, FiniteSets, TLC

(***************************************************************************)
(* Python values                                                           *)
(***************************************************************************)
PyNone == [t |-> "none"]
PyBool(b) == [t |-> "bool", v |-> b]
PyInt(n) == [t |-> "int", v |-> n]
\* A float with a short decimal expansion: <<m, e>> stands for m / 10^e,
\* m >= 0, and m is not a multiple of 10 unless e = 0.
PyFloat(m, e) == [t |-> "float", v |-> <<m, e>>]
PyStr(s) == [t |-> "str", v |-> s]
PyList(xs) == [t |-> "list", v |-> xs]
PyDict(ps) == [t |-> "dict", v |-> ps]

EmptyDict == PyDict(<<>>)
EmptyStr == PyStr(<<>>)

\* bool(x), and the truth test of `if x`, `not x`, `x or y`, `x and y`.
Truthy(x) ==
    CASE x.t = "none" -> FALSE
      [] x.t = "bool" -> x.v
      [] x.t = "int" -> x.v # 0
      [] x.t = "float" -> x.v[1] # 0
      [] OTHER -> Len(x.v) > 0

\* x or y
PyOr(x, y) == IF Truthy(x) THEN x ELSE y

\* dict operations: k in d, d.get(k, default), d[k] = x, d.pop(k, None)
Keys(d) == {d.v[i][1] : i \in 1..Len(d.v)}
HasKey(d, k) == k \in Keys(d)
IndexOf(d, k) == CHOOSE i \in 1..Len(d.v) : d.v[i][1] = k
Get(d, k, default) == IF HasKey(d, k) THEN d.v[IndexOf(d, k)][2] ELSE default
Put(d, k, x) ==
    IF HasKey(d, k)
    THEN PyDict([d.v EXCEPT ![IndexOf(d, k)] = <<k, x>>])
    ELSE PyDict(Append(d.v, <<k, x>>))
Pop(d, k) == PyDict(SelectSeq(d.v, LAMBDA p : p[1] # k))

(***************************************************************************)
(* Text                                                                    *)
(***************************************************************************)
\* The code points of the keys the model uses.
KeyText ==
    [k \in {"__metadata__", "__update_policy__", "a", "b", "c", "m", "y", "z",
            "crc", "crc32", "hmac", "version", "description", "encrypted",
            "timestamp", "default"} |->
        CASE k = "__metadata__" -> <<95, 95, 109, 101, 116, 97, 100, 97, 116, 97, 95, 95>>
          [] k = "__update_policy__" ->
               <<95, 95, 117, 112, 100, 97, 116, 101, 95, 112, 111, 108, 105, 99, 121, 95, 95>>
          [] k = "a" -> <<97>>
          [] k = "b" -> <<98>>
          [] k = "c" -> <<99>>
          [] k = "m" -> <<109>>
          [] k = "y" -> <<121>>
          [] k = "z" -> <<122>>
          [] k = "crc" -> <<99, 114, 99>>
          [] k = "crc32" -> <<99, 114, 99, 51, 50>>
          [] k = "hmac" -> <<104, 109, 97, 99>>
          [] k = "version" -> <<118, 101, 114, 115, 105, 111, 110>>
          [] k = "description" -> <<100, 101, 115, 99, 114, 105, 112, 116, 105, 111, 110>>
          [] k = "encrypted" -> <<101, 110, 99, 114, 121, 112, 116, 101, 100>>
          [] k = "timestamp" -> <<116, 105, 109, 101, 115, 116, 97, 109, 112>>
          [] k = "default" -> <<100, 101, 102, 97, 117, 108, 116>>]

RECURSIVE Flatten(_)
Flatten(ss) == IF ss = <<>> THEN <<>> ELSE Head(ss) \o Flatten(Tail(ss))

\* s < t in lexicographic order (Python's str order, which is also the order
\* of the UTF-8 bytes).
RECURSIVE LexLess(_, _)
LexLess(s, t) ==
    IF t = <<>> THEN FALSE
    ELSE IF s = <<>> THEN TRUE
    ELSE IF Head(s) # Head(t) THEN Head(s) < Head(t)
    ELSE LexLess(Tail(s), Tail(t))

\* str.encode('utf-8') of one code point.
Utf8(cp) ==
    IF cp < 128 THEN <<cp>>
    ELSE IF cp < 2048 THEN <<192 + (cp \div 64), 128 + (cp % 64)>>
    ELSE <<224 + (cp \div 4096), 128 + ((cp \div 64) % 64), 128 + (cp % 64)>>

HexDigit(n) == IF n < 10 THEN 48 + n ELSE 87 + n

RECURSIVE Digits(_)
Digits(n) == IF n < 10 THEN <<48 + n>> ELSE Digits(n \div 10) \o <<48 + (n % 10)>>

RECURSIVE Pow10(_)
Pow10(e) == IF e = 0 THEN 1 ELSE 10 * Pow10(e - 1)

\* The digits of n, left-padded with zeros to width w.
RECURSIVE PadDigits(_, _)
PadDigits(n, w) == IF w = 0 THEN <<>> ELSE PadDigits(n \div 10, w - 1) \o <<48 + (n % 10)>>

(***************************************************************************)
(* dump_compact_sorted: json.dumps(obj, separators=(',', ':'),             *)
(* ensure_ascii=False, sort_keys=True), as UTF-8 bytes.                    *)
(***************************************************************************)
\* One character of a JSON string: the escapes json applies with
\* ensure_ascii=False, every other character literally.
EncodeChar(cp) ==
    CASE cp = 34 -> <<92, 34>>
      [] cp = 92 -> <<92, 92>>
      [] cp = 10 -> <<92, 110>>
      [] cp = 13 -> <<92, 114>>
      [] cp = 9 -> <<92, 116>>
      [] cp = 8 -> <<92, 98>>
      [] cp = 12 -> <<92, 102>>
      [] cp < 32 -> <<92, 117, 48, 48, HexDigit(cp \div 16), HexDigit(cp % 16)>>
      [] OTHER -> Utf8(cp)

EncodeString(s) == <<34>> \o Flatten([i \in 1..Len(s) |-> EncodeChar(s[i])]) \o <<34>>

EncodeInt(n) == IF n < 0 THEN <<45>> \o Digits(-n) ELSE Digits(n)

\* A float with no fraction written as an integer, as a serializer that
\* prints the shortest form of the number would write it.
EncodeFloat_Integral(f) ==
    LET m == f[1]
        e == f[2]
    IN  IF e = 0 THEN Digits(m)
        ELSE Digits(m \div Pow10(e)) \o <<46>> \o PadDigits(m % Pow10(e), e)

\* float.__repr__ of m / 10^e.
EncodeFloat(f) ==
    LET m == f[1]
        e == f[2]
    IN  IF e = 0 THEN Digits(m) \o <<46, 48>>
        ELSE Digits(m \div Pow10(e)) \o <<46>> \o PadDigits(m % Pow10(e), e)

\* sort_keys=True: the pairs of a dict by ascending key.
RECURSIVE SortPairs(_)
SortPairs(ps) ==
    IF ps = <<>> THEN <<>>
    ELSE LET i == CHOOSE i \in 1..Len(ps) :
                    \A j \in 1..Len(ps) : j = i \/ LexLess(KeyText[ps[i][1]], KeyText[ps[j][1]])
         IN  <<ps[i]>> \o SortPairs(SubSeq(ps, 1, i - 1) \o SubSeq(ps, i + 1, Len(ps)))

\* sort_keys=False: the pairs in insertion order.
KeepPairs(ps) == ps

PairOrder(ps) == SortPairs(ps)

RECURSIVE Join(_)
Join(ss) ==
    IF ss = <<>> THEN <<>>
    ELSE IF Len(ss) = 1 THEN Head(ss)
    ELSE Head(ss) \o <<44>> \o Join(Tail(ss))

RECURSIVE dump_compact_sorted(_)
dump_compact_sorted(obj) ==
    CASE obj.t = "none" -> <<110, 117, 108, 108>>
      [] obj.t = "bool" -> IF obj.v THEN <<116, 114, 117, 101>> ELSE <<102, 97, 108, 115, 101>>
      [] obj.t = "int" -> EncodeInt(obj.v)
      [] obj.t = "float" -> EncodeFloat(obj.v)
      [] obj.t = "str" -> EncodeString(obj.v)
      [] obj.t = "list" ->
           <<91>> \o Join([i \in 1..Len(obj.v) |-> dump_compact_sorted(obj.v[i])]) \o <<93>>
      [] obj.t = "dict" ->
           LET ps == PairOrder(obj.v)
           IN  <<123>>
               \o Join([i \in 1..Len(ps) |->
                          EncodeString(KeyText[ps[i][1]]) \o <<58>> \o dump_compact_sorted(ps[i][2])])
               \o <<125>>

(***************************************************************************)
(* calculate_crc32: zlib's CRC-32 of the bytes, as 8 lowercase hex digits. *)
(* The 32-bit register is held as two 16-bit halves <<hi, lo>>.            *)
(***************************************************************************)
\* Bitwise exclusive or of two naturals.
RECURSIVE XorBits(_, _)
XorBits(x, y) ==
    IF x = 0 THEN y
    ELSE IF y = 0 THEN x
    ELSE 2 * XorBits(x \div 2, y \div 2) + ((x + y) % 2)

\* The exclusive or of two bytes, tabulated.
XorTable == [x \in 0..255 |-> [y \in 0..255 |-> XorBits(x, y)] @@ <<>>] @@ <<>>

\* Bitwise exclusive or of two 16-bit numbers.
Xor(x, y) == 256 * XorTable[x \div 256][y \div 256] + XorTable[x % 256][y % 256]

\* One bit of input consumed: shift right, and xor the reflected polynomial
\* 0xEDB88320 in when the bit shifted out is set.
CrcShift(c) ==
    LET hi == c[1] \div 2
        lo == (c[2] \div 2) + 32768 * (c[1] % 2)
    IN  IF c[2] % 2 = 1 THEN <<Xor(hi, 60856), Xor(lo, 33568)>> ELSE <<hi, lo>>

\* zlib's table: the register after the eight bits of byte b.
CrcTable ==
    [b \in 0..255 |->
        CrcShift(CrcShift(CrcShift(CrcShift(CrcShift(CrcShift(CrcShift(CrcShift(<<0, b>>))))))))]
    @@ <<>>

\* crc = table[(crc ^ b) & 0xff] ^ (crc >> 8)
CrcByte(c, b) ==
    LET e == CrcTable[XorTable[c[2] % 256][b]]
    IN  <<Xor(e[1], c[1] \div 256), Xor(e[2], (c[2] \div 256) + 256 * (c[1] % 256))>>

\* The register after the bytes data[i..]; the test on c[1] has the register
\* computed byte by byte.
RECURSIVE CrcBytes(_, _, _)
CrcBytes(c, data, i) ==
    IF i > Len(data) \/ c[1] < 0 THEN c ELSE CrcBytes(CrcByte(c, data[i]), data, i + 1)

\* Four lowercase hex digits of a 16-bit number.
Hex4(n) ==
    <<HexDigit(n \div 4096), HexDigit((n \div 256) % 16), HexDigit((n \div 16) % 16),
      HexDigit(n % 16)>>

\* binascii.crc32(data) & 0xFFFFFFFF: the register starts at all ones and is
\* inverted at the end; then f"{crc:08x}".
calculate_crc32(data) ==
    LET c == CrcBytes(<<65535, 65535>>, data, 1)
    IN  Hex4(65535 - c[1]) \o Hex4(65535 - c[2])

(***************************************************************************)
(* calculate_hmac_sha256: HMAC-SHA256 has no collisions the model could    *)
(* reach, so it is modelled as a collision-free function of the key and    *)
(* the message: the hex digits of key, the byte 0xff (which no UTF-8 text  *)
(* holds), and message.  The result is a non-empty lowercase hex string,   *)
(* as hexdigest() returns.                                                 *)
(***************************************************************************)
calculate_hmac_sha256(data, secret) ==
    LET bytes == Flatten([i \in 1..Len(secret) |-> Utf8(secret[i])]) \o <<255>> \o data
    IN  Flatten([i \in 1..Len(bytes) |->
                    <<HexDigit(bytes[i] \div 16), HexDigit(bytes[i] % 16)>>])

(***************************************************************************)
(* set_nested_key                                                          *)
(***************************************************************************)
\* str.lower() of ASCII text.
Lower(s) == [i \in 1..Len(s) |-> IF s[i] \in 65..90 THEN s[i] + 32 ELSE s[i]]

\* str.isdigit() of ASCII text.
IsDigit(s) == Len(s) > 0 /\ \A i \in 1..Len(s) : s[i] \in 48..57

RECURSIVE IntOf(_)
IntOf(s) == IF s = <<>> THEN 0 ELSE 10 * IntOf(SubSeq(s, 1, Len(s) - 1)) + (s[Len(s)] - 48)

\* m / 10^e with the trailing zeros of the fraction dropped.
RECURSIVE Normal(_, _)
Normal(m, e) == IF e > 0 /\ m % 10 = 0 THEN Normal(m \div 10, e - 1) ELSE PyFloat(m, e)

\* float(s) for text made of digits and one point, with a digit on at least
\* one side of it; any other text the model passes in raises ValueError.
\* (Signs, exponents, blanks, underscores, inf and nan, which float() also
\* reads, are in none of the model's inputs.)
ParseFloat(s) ==
    LET dots == {i \in 1..Len(s) : s[i] = 46}
        d == CHOOSE i \in dots : TRUE
        ip == SubSeq(s, 1, d - 1)
        fp == SubSeq(s, d + 1, Len(s))
    IN  IF /\ Cardinality(dots) = 1
           /\ Len(s) > 1
           /\ \A i \in 1..Len(s) : s[i] = 46 \/ s[i] \in 48..57
        THEN [ok |-> TRUE, val |-> Normal(IntOf(ip) * Pow10(Len(fp)) + IntOf(fp), Len(fp))]
        ELSE [ok |-> FALSE, val |-> PyNone]

\* The conversion of the text after '=' to a typed value.
Coerce(raw) ==
    CASE Lower(raw) = <<116, 114, 117, 101>> -> PyBool(TRUE)
      [] Lower(raw) = <<102, 97, 108, 115, 101>> -> PyBool(FALSE)
      [] Lower(raw) = <<110, 117, 108, 108>> -> PyNone
      [] OTHER ->
           IF IsDigit(raw) THEN PyInt(IntOf(raw))
           ELSE IF ParseFloat(raw).ok THEN ParseFloat(raw).val
           ELSE PyStr(raw)

\* The walk down keys[i..] from current: [ok, val] with val the updated
\* container, or ok = FALSE where Python raises TypeError (a container on the
\* way that is no dict).
RECURSIVE SetAt(_, _, _, _)
SetAt(current, keys, i, value) ==
    IF current.t # "dict" THEN [ok |-> FALSE, val |-> current]
    ELSE IF i = Len(keys) THEN [ok |-> TRUE, val |-> Put(current, keys[i], value)]
    ELSE LET next == Get(current, keys[i], EmptyDict)
             sub == SetAt(next, keys, i + 1, value)
         IN  IF sub.ok
             THEN [ok |-> TRUE, val |-> Put(current, keys[i], sub.val)]
             ELSE [ok |-> FALSE, val |-> current]

\* path is the list path.split('.') gives.
set_nested_key(data, path, value) == SetAt(data, path, 1, Coerce(value))

(***************************************************************************)
(* save_config: the document written to the file.                          *)
(***************************************************************************)
\* int(x): [ok, val], ok = FALSE where int() raises.  A str converts when it
\* is all digits (the model's texts hold no sign, blank or underscore).
IntConv(x) ==
    CASE x.t = "int" -> [ok |-> TRUE, val |-> x.v]
      [] x.t = "bool" -> [ok |-> TRUE, val |-> IF x.v THEN 1 ELSE 0]
      [] x.t = "float" -> [ok |-> TRUE, val |-> x.v[1] \div Pow10(x.v[2])]
      [] x.t = "str" -> IF IsDigit(x.v) THEN [ok |-> TRUE, val |-> IntOf(x.v)]
                        ELSE [ok |-> FALSE, val |-> 0]
      [] OTHER -> [ok |-> FALSE, val |-> 0]

\* The document without the two reserved sections.
CoreOf(data) == Pop(Pop(data, "__metadata__"), "__update_policy__")

\* verify_config without its pop of '__update_policy__'.
VerifyCore_KeepPolicy(data) == Pop(data, "__metadata__")

\* The copy verify_config canonicalises.
VerifyCore(data) == CoreOf(data)

\* metadata['version'] = int(metadata.get('version', 1)), 1 when int() raises
SaveVersion(metadata) ==
    LET c == IntConv(Get(metadata, "version", PyInt(1)))
    IN  PyInt(IF c.ok THEN c.val ELSE 1)

\* save_config setting the hmac only where the metadata has none yet.
SaveHmac_KeepPresent(metadata, core_json, secret) ==
    IF Truthy(secret)
    THEN IF HasKey(metadata, "hmac") THEN metadata
         ELSE Put(metadata, "hmac", PyStr(calculate_hmac_sha256(core_json, secret.v)))
    ELSE Pop(metadata, "hmac")

\* save_config without the removal of the hmac it cannot recompute.
SaveHmac_NoPop(metadata, core_json, secret) ==
    IF Truthy(secret)
    THEN Put(metadata, "hmac", PyStr(calculate_hmac_sha256(core_json, secret.v)))
    ELSE metadata

\* The hmac field: set when a secret is given, removed otherwise.
SaveHmac(metadata, core_json, secret) ==
    IF Truthy(secret)
    THEN Put(metadata, "hmac", PyStr(calculate_hmac_sha256(core_json, secret.v)))
    ELSE Pop(metadata, "hmac")

save_config(data, secret, now) ==
    LET popped == Get(data, "__metadata__", EmptyDict)
        config_copy == CoreOf(data)
        core_json == dump_compact_sorted(config_copy)
        crc_hex == calculate_crc32(core_json)
        m0 == IF popped.t # "dict" THEN EmptyDict ELSE popped
        m1 == Put(m0, "crc", PyStr(crc_hex))
        m2 == Put(m1, "version", SaveVersion(m1))
        m3 == Put(m2, "description", Get(m2, "description", EmptyStr))
        m4 == Put(m3, "encrypted", PyBool(Truthy(Get(m3, "encrypted", PyBool(FALSE)))))
        m5 == SaveHmac(m4, core_json, secret)
        metadata == Put(m5, "timestamp", PyStr(now))
    IN  PyDict(<<<<"__metadata__", metadata>>>>
               \o (IF HasKey(data, "__update_policy__")
                   THEN <<<<"__update_policy__", Get(data, "__update_policy__", PyNone)>>>>
                   ELSE <<>>)
               \o config_copy.v)

(***************************************************************************)
(* verify_config: what it reports and returns for the document read.       *)
(* The metadata of every file of the model is a dict (on any other value   *)
(* that is not empty metadata.get raises AttributeError).                  *)
(***************************************************************************)
\* metadata.get('crc') alone.
StoredCrc_CrcOnly(metadata) == Get(metadata, "crc", PyNone)

\* metadata.get('crc') or metadata.get('crc32')
StoredCrc(metadata) == PyOr(Get(metadata, "crc", PyNone), Get(metadata, "crc32", PyNone))

Report(ok, missing, crc, checked, hm) ==
    [ok |-> ok, missing |-> missing, crcOk |-> crc, hmacChecked |-> checked, hmacOk |-> hm]

\* verify_config comparing the HMAC whenever a secret is given, a missing or
\* empty stored hmac being a mismatch.
verify_config_AlwaysHmac(data, secret) ==
    LET metadata == Get(data, "__metadata__", EmptyDict)
        core_json == dump_compact_sorted(CoreOf(data))
        crc_valid == PyOr(Get(metadata, "crc", PyNone), Get(metadata, "crc32", PyNone))
                        = PyStr(calculate_crc32(core_json))
        hmac_valid == Get(metadata, "hmac", PyNone)
                        = PyStr(calculate_hmac_sha256(core_json, secret.v))
    IN  IF ~Truthy(metadata) THEN Report(FALSE, TRUE, FALSE, FALSE, FALSE)
        ELSE IF Truthy(secret)
        THEN Report(crc_valid /\ hmac_valid, FALSE, crc_valid, TRUE, hmac_valid)
        ELSE Report(crc_valid, FALSE, crc_valid, FALSE, FALSE)

\* verify_config taking a document with no metadata as having nothing to
\* verify.
verify_config_NoMetaOk(data, secret) ==
    LET metadata == Get(data, "__metadata__", EmptyDict)
        core_json == dump_compact_sorted(CoreOf(data))
        crc_valid == PyOr(Get(metadata, "crc", PyNone), Get(metadata, "crc32", PyNone))
                        = PyStr(calculate_crc32(core_json))
        hmac_valid == Get(metadata, "hmac", PyNone)
                        = PyStr(calculate_hmac_sha256(core_json, secret.v))
    IN  IF ~Truthy(metadata) THEN Report(TRUE, TRUE, FALSE, FALSE, FALSE)
        ELSE IF Truthy(secret) /\ Truthy(Get(metadata, "hmac", PyNone))
        THEN Report(crc_valid /\ hmac_valid, FALSE, crc_valid, TRUE, hmac_valid)
        ELSE Report(crc_valid, FALSE, crc_valid, FALSE, FALSE)

verify_config(data, secret) ==
    LET metadata == Get(data, "__metadata__", EmptyDict)
        stored_crc == StoredCrc(metadata)
        stored_hmac == Get(metadata, "hmac", PyNone)
        core_json == dump_compact_sorted(VerifyCore(data))
        crc_valid == stored_crc = PyStr(calculate_crc32(core_json))
        hmac_valid == stored_hmac = PyStr(calculate_hmac_sha256(core_json, secret.v))
    IN  IF ~Truthy(metadata) THEN Report(FALSE, TRUE, FALSE, FALSE, FALSE)
        ELSE IF Truthy(secret) /\ Truthy(stored_hmac)
        THEN Report(crc_valid /\ hmac_valid, FALSE, crc_valid, TRUE, hmac_valid)
        ELSE Report(crc_valid, FALSE, crc_valid, FALSE, FALSE)

(***************************************************************************)
(* The state: the config file, the command line tool run on it, and the    *)
(* editors outside the tool that change the file between runs.             *)
(***************************************************************************)
VARIABLES
    file,       \* the document in the config file, or NoFile
    lastSave,   \* the latest save_config call: its arguments and what it wrote
    out,        \* what the latest run of --verify reported, or NoOut
    ops         \* the number of runs and outside edits so far

vars == <<file, lastSave, out, ops>>

\* The number of tool runs and outside edits in one behaviour.
MaxOps == 2

NoFile == [t |-> "nofile"]
NoSave == [t |-> "nosave"]
NoOut == [t |-> "noout"]

\* The secrets a run gets from --secret or HMAC_SECRET: none, the empty
\* string, "k" and "z".
Secrets == {PyNone, EmptyStr, PyStr(<<107>>), PyStr(<<122>>)}

\* datetime.now() as '%Y-%m-%d %H:%M:%S' (here "2026-01-01 00:00:00").
Now == <<50, 48, 50, 54, 45, 48, 49, 45, 48, 49, 32, 48, 48, 58, 48, 48, 58, 48, 48>>

\* The document main builds for --create when the file does not exist.
Scaffold ==
    PyDict(<<<<"__metadata__",
               PyDict(<<<<"version", PyStr(<<49, 46, 48, 46, 48>>)>>,
                        <<"crc32", EmptyStr>>,
                        <<"hmac", EmptyStr>>>>)>>,
             <<"__update_policy__",
               PyDict(<<<<"default", PyStr(<<111, 110, 95, 99, 104, 97, 110, 103, 101>>)>>>>)>>>>)

\* The --set KEY=VALUE arguments of one run, each <<path.split('.'), VALUE>>:
\* none; a.z=1.50; __metadata__.crc=x and __metadata__.hmac= ; __metadata__=x.
SetLists ==
    { <<>>,
      << <<<<"a", "z">>, <<49, 46, 53, 48>>>> >>,
      << <<<<"__metadata__", "crc">>, <<120>>>>, <<<<"__metadata__", "hmac">>, <<>>>> >>,
      << <<<<"__metadata__">>, <<120>>>> >> }

\* The files found on disk before the tool first runs: written by hand, by
\* an earlier version of the tool or by the config consumer.
CoreA == <<<<"b", PyInt(1)>>, <<"a", PyDict(<<<<"z", PyBool(TRUE)>>, <<"y", PyStr(<<120>>)>>>>)>>>>
CoreB == <<<<"c", PyStr(<<233, 34>>)>>, <<"a", PyList(<<PyInt(2), PyFloat(15, 1)>>)>>>>

Policy == PyDict(<<<<"default", PyStr(<<120>>)>>>>)

CrcOf(core) == PyStr(calculate_crc32(dump_compact_sorted(PyDict(core))))

Documents ==
    { \* no reserved section
      PyDict(CoreA),
      \* the checksum under its earlier name
      PyDict(<<<<"__metadata__", PyDict(<<<<"crc32", CrcOf(CoreA)>>>>)>>,
               <<"__update_policy__", Policy>>>> \o CoreA),
      \* an empty signature
      PyDict(<<<<"__metadata__", PyDict(<<<<"crc", CrcOf(CoreB)>>, <<"hmac", EmptyStr>>>>)>>>>
             \o CoreB),
      \* signed with the secret "k"
      PyDict(<<<<"__metadata__",
                 PyDict(<<<<"version", PyInt(3)>>, <<"description", PyStr(<<100>>)>>,
                          <<"encrypted", PyBool(TRUE)>>, <<"crc", CrcOf(CoreB)>>,
                          <<"hmac", PyStr(calculate_hmac_sha256(
                                              dump_compact_sorted(PyDict(CoreB)), <<107>>))>>>>)>>,
               <<"__update_policy__", Policy>>>> \o CoreB),
      \* metadata with no checksum, empty core
      PyDict(<<<<"__metadata__", PyDict(<<<<"version", PyInt(3)>>>>)>>>>) }

Init ==
    /\ file \in {NoFile} \cup Documents
    /\ lastSave = NoSave
    /\ out = NoOut
    /\ ops = 0

\* The --set arguments applied in turn: [ok, val].
RECURSIVE ApplySets(_, _, _)
ApplySets(data, sets, i) ==
    IF i > Len(sets) THEN [ok |-> TRUE, val |-> data]
    ELSE LET r == set_nested_key(data, sets[i][1], sets[i][2])
         IN  IF r.ok THEN ApplySets(r.val, sets, i + 1) ELSE [ok |-> FALSE, val |-> data]

\* main, neither --verify nor --display: the --set arguments are applied to
\* data and, when there were any or --create was given, data is saved.  A
\* set_nested_key that raises ends the run with the file as it was.
Save(data, sets, secret) ==
    LET edited == ApplySets(data, sets, 1)
    IN  /\ out = NoOut
        /\ ops < MaxOps
        /\ edited.ok
        /\ file' = save_config(edited.val, secret, Now)
        /\ lastSave' = [t |-> "save", data |-> edited.val, secret |-> secret, doc |-> file']
        /\ ops' = ops + 1
        /\ UNCHANGED out

\* main with --create on a path that does not exist.
MainCreate ==
    /\ file = NoFile
    /\ \E secret \in Secrets, sets \in SetLists : Save(Scaffold, sets, secret)

\* main on an existing file with --set arguments, or with --create alone.
MainSet ==
    /\ file # NoFile
    /\ \E secret \in Secrets, sets \in SetLists : Save(file, sets, secret)

\* main with --verify on an existing file.  It only reads the file, so the
\* runs and edits that could follow it are those that can follow the state it
\* started in; the model ends a behaviour with it.
MainVerify ==
    /\ file # NoFile
    /\ out = NoOut
    /\ \E secret \in Secrets :
         out' = [t |-> "verify", secret |-> secret, res |-> verify_config(file, secret)]
    /\ UNCHANGED <<file, lastSave, ops>>

(***************************************************************************)
(* Edits of the file made outside the tool, with no save after them.       *)
(***************************************************************************)
TamperValues == {PyInt(1), PyFloat(1, 0)}

\* The values that differ from x in exactly one leaf.
RECURSIVE Tampered(_)
Tampered(x) ==
    CASE x.t = "list" ->
           UNION { { PyList([x.v EXCEPT ![i] = y]) : y \in Tampered(x.v[i]) } : i \in 1..Len(x.v) }
      [] x.t = "dict" ->
           UNION { { PyDict([x.v EXCEPT ![i] = <<x.v[i][1], y>>]) : y \in Tampered(x.v[i][2]) } :
                   i \in 1..Len(x.v) }
      [] OTHER -> {y \in TamperValues : y # x}

\* data with its core replaced by core, the reserved sections first.
WithCore(data, core) ==
    PyDict(SelectSeq(data.v, LAMBDA p : p[1] \in {"__metadata__", "__update_policy__"}) \o core.v)

ExtTamperLeaf ==
    /\ file # NoFile
    /\ out = NoOut
    /\ ops < MaxOps
    /\ \E core \in Tampered(CoreOf(file)) : file' = WithCore(file, core)
    /\ ops' = ops + 1
    /\ UNCHANGED <<lastSave, out>>

ExtEditPolicy ==
    /\ file # NoFile
    /\ out = NoOut
    /\ ops < MaxOps
    /\ \/ /\ HasKey(file, "__update_policy__")
          /\ file' = Pop(file, "__update_policy__")
       \/ /\ Get(file, "__update_policy__", PyNone) # Policy
          /\ file' = Put(file, "__update_policy__", Policy)
    /\ ops' = ops + 1
    /\ UNCHANGED <<lastSave, out>>

\* The metadata fields that take no part in verification.
PlainFields == {"version", "description", "encrypted", "timestamp"}

ExtEditMeta ==
    /\ file # NoFile
    /\ out = NoOut
    /\ ops < MaxOps
    /\ HasKey(file, "__metadata__")
    /\ LET metadata == Get(file, "__metadata__", EmptyDict)
       IN  \E f \in PlainFields :
             /\ Get(metadata, f, PyNone) # PyInt(9)
             /\ file' = Put(file, "__metadata__", Put(metadata, f, PyInt(9)))
    /\ ops' = ops + 1
    /\ UNCHANGED <<lastSave, out>>

Next ==
    \/ MainCreate
    \/ MainSet
    \/ MainVerify
    \/ ExtTamperLeaf
    \/ ExtEditPolicy
    \/ ExtEditMeta

Spec == Init /\ [][Next]_vars

(***************************************************************************)
(* Vocabulary of the properties                                            *)
(***************************************************************************)
Saved == lastSave.t = "save"
Verified == out.t = "verify"
\* The state a save leaves.
JustSaved == Saved /\ out = NoOut /\ file = lastSave.doc
MetaOf(data) == Get(data, "__metadata__", EmptyDict)
PriorMeta == IF MetaOf(lastSave.data).t = "dict" THEN MetaOf(lastSave.data) ELSE EmptyDict
HmacOver(data, secret) ==
    PyStr(calculate_hmac_sha256(dump_compact_sorted(CoreOf(data)), secret.v))

\* x and y are the same JSON value: dicts with the same keys and the same
\* values under them whatever the order, lists equal element by element.
RECURSIVE SameValue(_, _)
SameValue(x, y) ==
    IF x.t # y.t THEN FALSE
    ELSE CASE x.t = "dict" ->
                /\ Keys(x) = Keys(y)
                /\ Len(x.v) = Len(y.v)
                /\ \A k \in Keys(x) : SameValue(Get(x, k, PyNone), Get(y, k, PyNone))
           [] x.t = "list" ->
                /\ Len(x.v) = Len(y.v)
                /\ \A i \in 1..Len(x.v) : SameValue(x.v[i], y.v[i])
           [] OTHER -> x = y

\* The sequences that take their i-th element from sets[i].
RECURSIVE Choices(_)
Choices(sets) ==
    IF sets = <<>> THEN {<<>>}
    ELSE { <<h>> \o r : h \in Head(sets), r \in Choices(Tail(sets)) }

Orders(n) == { f \in [1..n -> 1..n] : \A i, j \in 1..n : f[i] = f[j] => i = j }

\* Every value that differs from x only in the order of the keys of its
\* dicts, at any depth.
RECURSIVE Reorderings(_)
Reorderings(x) ==
    CASE x.t = "dict" ->
           { PyDict([i \in 1..Len(x.v) |-> <<x.v[f[i]][1], c[f[i]]>>]) :
               f \in Orders(Len(x.v)),
               c \in Choices([i \in 1..Len(x.v) |-> Reorderings(x.v[i][2])]) }
      [] x.t = "list" ->
           { PyList(c) : c \in Choices([i \in 1..Len(x.v) |-> Reorderings(x.v[i])]) }
      [] OTHER -> {x}

\* x with every list of it reversed.
RECURSIVE Reversed(_)
Reversed(x) ==
    CASE x.t = "dict" -> PyDict([i \in 1..Len(x.v) |-> <<x.v[i][1], Reversed(x.v[i][2])>>])
      [] x.t = "list" -> PyList([i \in 1..Len(x.v) |-> Reversed(x.v[Len(x.v) + 1 - i])])
      [] OTHER -> x

\* The file with the checksum of its metadata moved from crc32 to crc.
Renamed(data) ==
    LET metadata == MetaOf(data)
    IN  Put(data, "__metadata__",
            Put(Pop(metadata, "crc32"), "crc", Get(metadata, "crc32", PyNone)))

(***************************************************************************)
(* C1.  Round trip: a document saved with a non-empty secret, whatever its *)
(* metadata and policy were before and whatever --set edits the run made   *)
(* (overwriting metadata fields included), verifies under the same secret: *)
(* the CRC matches, the HMAC is checked and matches, the run succeeds.     *)
(***************************************************************************)
C1_RoundTrip ==
    (Verified /\ Saved /\ file = lastSave.doc
        /\ Truthy(lastSave.secret) /\ out.secret = lastSave.secret)
    => (out.res.crcOk /\ out.res.hmacChecked /\ out.res.hmacOk /\ out.res.ok)

\* The run that saved had overwritten the crc and the hmac of the metadata.
C1_Witness ==
    /\ Verified /\ Saved /\ file = lastSave.doc
    /\ Truthy(lastSave.secret) /\ out.secret = lastSave.secret
    /\ Get(PriorMeta, "crc", PyNone) = PyStr(<<120>>)
    /\ Get(PriorMeta, "hmac", PyNone) = EmptyStr
    /\ out.res.ok

C4_Result(checked) ==
    LET metadata == MetaOf(file)
        crc == StoredCrc(metadata) = CrcOf(CoreOf(file).v)
        hm == Get(metadata, "hmac", PyNone) = HmacOver(file, out.secret)
    IN  /\ out.res.hmacChecked = checked
        /\ out.res.crcOk = crc
        /\ checked => (out.res.hmacOk = hm /\ out.res.ok = (crc /\ hm))
        /\ ~checked => out.res.ok = crc

C4_AsClaimed ==
    (Verified /\ HasKey(file, "__metadata__"))
    => C4_Result(Truthy(out.secret) /\ HasKey(MetaOf(file), "hmac"))

\* C4 as amended: the HMAC is checked exactly when a non-empty secret is
\* given and the stored hmac is present and not empty; an empty stored hmac
\* counts as none.  A document saved under one secret fails under another.
C4_VerifyResult ==
    (Verified /\ HasKey(file, "__metadata__"))
    => /\ C4_Result(Truthy(out.secret) /\ Truthy(Get(MetaOf(file), "hmac", PyNone)))
       /\ (Saved /\ file = lastSave.doc /\ Truthy(lastSave.secret)
              /\ Truthy(out.secret) /\ out.secret # lastSave.secret)
          => ~out.res.ok

\* A secret is given and the stored hmac is the empty string: not checked.
C4_Witness ==
    /\ Verified
    /\ Truthy(out.secret)
    /\ Get(MetaOf(file), "hmac", PyNone) = EmptyStr
    /\ ~out.res.hmacChecked
    /\ out.res.ok

(***************************************************************************)
(* C5.  No stale signature: after a save with no secret (none, or the      *)
(* empty string) the saved metadata has no hmac field, whatever hmac it    *)
(* held before; after a save with a secret the hmac is the HMAC of the     *)
(* canonical string of the saved core under that secret.                   *)
(***************************************************************************)
C5_NoStaleHmac ==
    JustSaved =>
        IF Truthy(lastSave.secret)
        THEN Get(MetaOf(lastSave.doc), "hmac", PyNone) = HmacOver(lastSave.doc, lastSave.secret)
        ELSE ~HasKey(MetaOf(lastSave.doc), "hmac")

\* A save with no secret of a document that carried a signature.
C5_Witness ==
    /\ JustSaved
    /\ ~Truthy(lastSave.secret)
    /\ Truthy(Get(PriorMeta, "hmac", PyNone))
    /\ ~HasKey(MetaOf(lastSave.doc), "hmac")

(***************************************************************************)
(* C6.  Missing metadata: --verify on a document with no __metadata__      *)
(* section reports failure, with or without a secret.                      *)
(***************************************************************************)
C6_MissingMetadata ==
    (Verified /\ ~HasKey(file, "__metadata__")) => (out.res.missing /\ ~out.res.ok)

C6_Witness ==
    /\ Verified
    /\ ~HasKey(file, "__metadata__")
    /\ Truthy(out.secret)
    /\ ~out.res.ok

(***************************************************************************)
(* C7.  The checksum field on read: a document whose metadata holds the    *)
(* checksum under crc32 and has no crc field verifies exactly as the same  *)
(* document with the checksum under crc; with the right checksum the CRC   *)
(* is reported as matching.                                                *)
(***************************************************************************)
C7_Crc32Accepted ==
    (Verified /\ HasKey(MetaOf(file), "crc32") /\ ~HasKey(MetaOf(file), "crc"))
    => /\ out.res = verify_config(Renamed(file), out.secret)
       /\ Get(MetaOf(file), "crc32", PyNone) = CrcOf(CoreOf(file).v) => out.res.crcOk

C7_Witness ==
    /\ Verified
    /\ HasKey(MetaOf(file), "crc32")
    /\ ~HasKey(MetaOf(file), "crc")
    /\ out.res.crcOk
    /\ out.res.ok

(***************************************************************************)
(* C8.  Only crc is written on save: the metadata of a saved document has  *)
(* no crc32 field, whatever the metadata was before.                       *)
(***************************************************************************)
C8_OnlyCrcWritten ==
    JustSaved => (HasKey(MetaOf(lastSave.doc), "crc") /\ ~HasKey(MetaOf(lastSave.doc), "crc32"))

(***************************************************************************)
(* C9.  Metadata preservation: version, description and encrypted of the   *)
(* saved metadata are those of the metadata before the save where it had   *)
(* them, and 1, the empty string and false where it had not.               *)
(***************************************************************************)
C9_MetadataPreserved ==
    JustSaved =>
        /\ Get(MetaOf(lastSave.doc), "version", PyNone) = Get(PriorMeta, "version", PyInt(1))
        /\ Get(MetaOf(lastSave.doc), "description", PyNone) = Get(PriorMeta, "description", EmptyStr)
        /\ Get(MetaOf(lastSave.doc), "encrypted", PyNone) = Get(PriorMeta, "encrypted", PyBool(FALSE))

(***************************************************************************)
(* C10.  Reserved sections are excluded from integrity: the stored crc is  *)
(* that of the core alone, and after a save any change of the policy       *)
(* section or of the metadata fields version, description, encrypted and   *)
(* timestamp leaves the result of --verify as it was for the saved         *)
(* document: success under the secret of the save.                         *)
(***************************************************************************)
C10_ReservedExcluded ==
    /\ JustSaved => Get(MetaOf(file), "crc", PyNone) = CrcOf(CoreOf(lastSave.data).v)
    /\ (Verified /\ Saved /\ CoreOf(file) = CoreOf(lastSave.doc))
       => /\ out.res = verify_config(lastSave.doc, out.secret)
          /\ out.secret = lastSave.secret => out.res.ok

\* The policy section was changed after a save with a secret.
C10_Witness ==
    /\ Verified /\ Saved
    /\ CoreOf(file) = CoreOf(lastSave.doc)
    /\ Get(file, "__update_policy__", PyNone) # Get(lastSave.doc, "__update_policy__", PyNone)
    /\ Truthy(out.secret) /\ out.secret = lastSave.secret
    /\ out.res.hmacChecked
    /\ out.res.ok
====
